---- MODULE Spec2Model ----
(***************************************************************************)
(* Model of icon_mcp: the selection handoff between the agent-facing tool  *)
(* check_selection_status (MCPIconServer._check_selection), the browser-   *)
(* facing routes of WebServer (/ws, /api/save) and the CacheManager that   *)
(* all of them share, together with IconSearcher.search_icons, which mints *)
(* the search ids.                                                         *)
(*                                                                         *)
(* Everything runs on one asyncio event loop: the code between two awaits  *)
(* is one atomic step, and each action below is one such stretch of code.  *)
(*                                                                         *)
(* Time is counted in ticks of 100 ms (the polling interval of             *)
(* _check_selection).  The code never uses a reading of time.time() but    *)
(* in a difference with the current reading, so the model keeps the        *)
(* differences: for a timestamp its age (time.time() - timestamp), for     *)
(* start its elapsed time (time.time() - start), for a sleep the time      *)
(* left.  Tick moves them all, and stops counting a difference where the   *)
(* code no longer tells its values apart.  A sleeping coroutine is         *)
(* resumed when its timer is due: Tick does not pass a due timer.          *)
(***************************************************************************)
EXTENDS Integers, Sequences, FiniteSets, TLC

\* ---------------------------------------------------------------- constants
\* check_interval = 0.1 s, in ticks
CheckInterval == 1
\* asyncio.sleep(2) of the disconnect path, in ticks
GracePeriod == 20

\* WEB_SERVER_PORT default
DefaultPort == 3000
\* _find_available_port probes start_port .. start_port + 99
PortSpan == 100
\* the range of the fallback port, random.randint(20000, 30000)
FallbackLow == 20000
FallbackHigh == 30000

\* ------------------------------------------------------------------- bounds
\* ICON_CACHE_EXPIRY as configured for the runs, in ticks
ExpiryTicks == 1
\* ticks by which the longest maxWaitTime exceeds the grace period
LongWaitSlack == 3
\* upstream requests in a run of the search specification
MaxMinted == 3
\* upstream requests in a run of the cache specification
MaxCached == 2

\* the check_selection_status calls, the websocket connections and the
\* search_icons calls that can be in progress at once
Polls == 1..2
Conns == 1..2
SearchCalls == 1..2

\* random.choices(...) of _generate_search_id: the 8-character suffix
Suffixes == {"r1", "r2"}
\* the q argument of search_icons
Queries == {"home", "user"}
\* icon lists the upstream API answers with
UpstreamIcons == {<<"i1", "i2">>}
\* the icons of a POST /api/save body
ItemLists == {<<>>, <<"a">>, <<"b">>}
\* maxWaitTime arguments, in ticks
MaxWaits == {0, 2, GracePeriod + LongWaitSlack}

\* the empty searchId string (request.query.get("searchId", ""))
EmptyId == <<>>
\* a searchId no search ever returned
BogusId == <<0, "none">>

\* Python's None
None == [none |-> TRUE]
\* the step answered no call and no request
NoReply == [op |-> "none"]

Min(a, b) == IF a < b THEN a ELSE b

VARIABLES
    clock_ms,         \* int(time.time() * 1000), see generate_search_id
    expiry_seconds,   \* CacheManager.expiry_seconds
    icon_cache,       \* CacheManager._icon_cache
    search_cache,     \* CacheManager._search_cache
    selection_cache,  \* CacheManager._selection_cache
    ws_clients,       \* WebServer._ws_clients
    search,           \* the search_icons calls in progress
    poll,             \* the _check_selection calls in progress
    conn,             \* the _handle_websocket coroutines
    reply,            \* the answer the last step gave to a call or request
    minted,           \* history: the ids _generate_search_id has returned
    returned,         \* history: ids for which a poll returned completed
    site,             \* WebServer._site (None: not running), with the port
                      \* of its TCPSite and whether its socket is bound
    port,             \* WebServer.port
    auto_open,        \* WebServer.auto_open
    stop,             \* the WebServer.stop coroutine in progress
    client            \* IconSearcher._client

\* the web server and the upstream client
webvars == <<site, port, auto_open, stop, client>>

vars == <<clock_ms, expiry_seconds, icon_cache, search_cache, selection_cache,
          ws_clients, search, poll, conn, reply, minted, returned, webvars>>

\* ------------------------------------------------------------ CacheManager
\* dict assignment d[k] = v
Put(d, k, v) == [x \in DOMAIN d \cup {k} |-> IF x = k THEN v ELSE d[x]]
\* dict removal (del d[k], d.pop(k, None))
Drop(d, k) == [x \in DOMAIN d \ {k} |-> d[x]]

\* CacheEntry(data, timestamp=time.time(), key): age is time.time() - timestamp
CacheEntry(data, key) == [data |-> data, age |-> 0, key |-> key]

\* (variant: every record is written as connected)
SelectionDataConnected(status, search_id, connected, selected_icons) ==
    [status |-> status, search_id |-> search_id, age |-> 0,
     connected |-> TRUE, selected_icons |-> selected_icons]

\* SelectionData(status, search_id, timestamp=time.time(), connected,
\* selected_icons): age is time.time() - timestamp
SelectionData(status, search_id, connected, selected_icons) ==
    [status |-> status, search_id |-> search_id, age |-> 0,
     connected |-> connected, selected_icons |-> selected_icons]

\* (variant: the entry whose age equals the expiry is expired for get)
ExpiredAtTtl(entry) == entry.age >= expiry_seconds

\* the expiry test of get_icon and get_search
Expired(entry) == entry.age > expiry_seconds

\* get_icon: the value returned
get_icon(key) ==
    IF key \notin DOMAIN icon_cache THEN None
    ELSE IF Expired(icon_cache[key]) THEN None
    ELSE icon_cache[key].data

\* (variant: get_icon deletes nothing)
get_icon_cache_kept(key) == icon_cache

\* get_icon: the cache it leaves (an expired entry is deleted)
get_icon_cache(key) ==
    IF key \in DOMAIN icon_cache /\ Expired(icon_cache[key])
    THEN Drop(icon_cache, key) ELSE icon_cache

set_icon(cache, key, data) == Put(cache, key, CacheEntry(data, key))

\* get_search: the value returned
get_search(key) ==
    IF key \notin DOMAIN search_cache THEN None
    ELSE IF Expired(search_cache[key]) THEN None
    ELSE search_cache[key].data

\* get_search: the cache it leaves (an expired entry is deleted)
\* (variant: an expired entry is left in place)
get_search_cache_kept(key) == search_cache

get_search_cache(key) ==
    IF key \in DOMAIN search_cache /\ Expired(search_cache[key])
    THEN Drop(search_cache, key) ELSE search_cache

\* (variant: the search record is not stored)
set_search_skipped(cache, key, data) == cache

set_search(cache, key, data) == Put(cache, key, CacheEntry(data, key))

\* (variant: a stored record is not replaced)
set_selection_once(search_id, data) ==
    IF search_id \in DOMAIN selection_cache THEN selection_cache
    ELSE Put(selection_cache, search_id, data)

get_selection(search_id) ==
    IF search_id \in DOMAIN selection_cache
    THEN selection_cache[search_id] ELSE None

set_selection(search_id, data) == Put(selection_cache, search_id, data)

\* (variant: the record is left in place)
delete_selection_kept(search_id) == selection_cache

\* (variant: every record goes with the one deleted)
delete_selection_all(search_id) == <<>>

delete_selection(search_id) == Drop(selection_cache, search_id)

\* (variant: the entry whose age equals the expiry is counted as expired)
CountValidStrict(cache) ==
    Cardinality({k \in DOMAIN cache : cache[k].age < expiry_seconds})

\* get_stats: the entries of a namespace with now - e.timestamp <= expiry
CountValid(cache) ==
    Cardinality({k \in DOMAIN cache : cache[k].age <= expiry_seconds})

\* get_stats: the counts of one timestamped namespace
NamespaceStats(cache) ==
    [valid |-> CountValid(cache),
     expired |-> Cardinality(DOMAIN cache) - CountValid(cache),
     total |-> Cardinality(DOMAIN cache)]

\* get_stats (expiry_seconds is kept in ticks of 0.1 s: 600 to the minute)
get_stats ==
    [icon_cache |-> NamespaceStats(icon_cache),
     search_cache |-> NamespaceStats(search_cache),
     selection_cache |-> [total |-> Cardinality(DOMAIN selection_cache)],
     cache_expiry_minutes |-> expiry_seconds \div 600]

\* (variant: the entry whose age equals the expiry is removed too)
KeptByClearStrict(cache) ==
    [k \in {x \in DOMAIN cache : cache[x].age < expiry_seconds} |-> cache[k]]

\* clear(expired_only=True): what is left of a namespace
KeptByClear(cache) ==
    [k \in {x \in DOMAIN cache : ~(cache[x].age > expiry_seconds)} |-> cache[k]]

\* clear: what is left of a namespace
Cleared(cache, expired_only) ==
    IF expired_only THEN KeptByClear(cache) ELSE <<>>

\* clear: the count it returns for a namespace
ClearedCount(cache, expired_only) ==
    Cardinality(DOMAIN cache) - Cardinality(DOMAIN Cleared(cache, expired_only))

\* ------------------------------------------------------------------- Init
\* a _check_selection call: its position, its arguments and locals (elapsed
\* is time.time() - start, sleep_left what is left of asyncio.sleep).
\* History: outstanding is the terminal record written for its search id
\* since the call last read the record (see SaveApi, WsGraceOver);
\* after_consumed tells that a call had returned completed for its search id
\* before it was made.
IdlePoll ==
    [pc |-> "idle", search_id |-> EmptyId, elapsed |-> 0, max_wait |-> 0,
     sleep_left |-> 0, outstanding |-> None, after_consumed |-> FALSE]

\* a _handle_websocket coroutine: its position, its search_id, what is left
\* of its grace sleep, the status it re-read after the sleep; reopened is
\* history (see WsOpen)
IdleConn ==
    [pc |-> "idle", search_id |-> EmptyId, sleep_left |-> 0,
     reread |-> "none", reopened |-> FALSE]

\* a search_icons call: its position, its cache key and arguments (history:
\* evicted tells that its cache lookup deleted an expired entry)
IdleSearch == [pc |-> "idle", key |-> <<>>, args |-> <<>>, evicted |-> FALSE]

\* a WebServer.stop coroutine: its position, the connections of its
\* list(self._ws_clients) that it has not closed yet, and who called it
\* (the stop_web_server tool or _cleanup)
IdleStop == [pc |-> "idle", pending |-> {}, by |-> "none"]

InitWith(expiry) ==
    /\ clock_ms = 0
    /\ expiry_seconds = expiry
    /\ icon_cache = <<>>
    /\ search_cache = <<>>
    /\ selection_cache = <<>>
    /\ ws_clients = {}
    /\ search = [k \in SearchCalls |-> IdleSearch]
    /\ poll = [p \in Polls |-> IdlePoll]
    /\ conn = [c \in Conns |-> IdleConn]
    /\ reply = NoReply
    /\ minted = {}
    /\ returned = {}
    /\ site = None
    /\ port = DefaultPort
    /\ auto_open = FALSE
    /\ stop = IdleStop
    /\ client = "none"

Init == InitWith(ExpiryTicks)

\* ------------------------------------------------------------------- time
\* a coroutine whose asyncio.sleep has run out
TimerDue ==
    \/ \E p \in Polls : poll[p].pc = "sleep" /\ poll[p].sleep_left = 0
    \/ \E c \in Conns : conn[c].pc = "grace" /\ conn[c].sleep_left = 0

\* the entries of a timestamped cache, 100 ms older (ages past the expiry are
\* not told apart)
Older(cache) ==
    [k \in DOMAIN cache |->
        [cache[k] EXCEPT !.age = Min(@ + 1, expiry_seconds + 1)]]

\* 100 ms pass
Tick ==
    /\ UNCHANGED webvars
    /\ ~TimerDue
    /\ clock_ms' = IF \E id \in minted : id[1] = clock_ms
                   THEN clock_ms + 1 ELSE clock_ms
    /\ icon_cache' = Older(icon_cache)
    /\ search_cache' = Older(search_cache)
    /\ selection_cache' =
          [k \in DOMAIN selection_cache |->
              [selection_cache[k] EXCEPT !.age = 1]]
    /\ poll' = [p \in Polls |->
                  IF poll[p].pc = "sleep"
                  THEN [poll[p] EXCEPT
                          !.sleep_left = @ - 1,
                          !.elapsed = Min(@ + 1, poll[p].max_wait + 2 * CheckInterval)]
                  ELSE poll[p]]
    /\ conn' = [c \in Conns |->
                  IF conn[c].pc = "grace"
                  THEN [conn[c] EXCEPT !.sleep_left = @ - 1]
                  ELSE conn[c]]
    /\ reply' = NoReply
    /\ UNCHANGED <<expiry_seconds, ws_clients, search, minted, returned>>

\* a millisecond passes within the tick: the clock reading changes
MsPass ==
    /\ UNCHANGED webvars
    /\ \E id \in minted : id[1] = clock_ms
    /\ clock_ms' = clock_ms + 1
    /\ reply' = NoReply
    /\ UNCHANGED <<expiry_seconds, icon_cache, search_cache, selection_cache,
                   ws_clients, search, poll, conn, minted, returned>>

\* the slot a new coroutine of a kind runs in: the first free one
FirstFree(f) ==
    {i \in DOMAIN f : /\ f[i].pc \in {"idle", "done"}
                       /\ \A j \in DOMAIN f :
                             f[j].pc \in {"idle", "done"} => i <= j}

\* the search ids a caller can know, and one it cannot
KnownIds == minted \cup {BogusId}

\* ------------------------------------------------- MCPIconServer (polling)
\* (variant: an exception is answered by a payload without "error")
call_tool_unmarked(raised, message, result) ==
    IF raised THEN [success |-> FALSE] ELSE result

\* call_tool: the payload of the answer is the result of _dispatch_tool,
\* or {"error": str(e)} for an exception raised under it; the messages are
\* those of t(key), written as their keys
call_tool(raised, message, result) ==
    IF raised THEN [error |-> message] ELSE result

\* the answer to a check_selection_status call: the ValueError of an
\* unknown search id (status "error"), or the dict returned
PollReply(search_id, status, success, icons) ==
    [op |-> "check_selection_status", search_id |-> search_id,
     status |-> status, success |-> success, selected_icons |-> icons,
     payload |-> call_tool(status = "error", "selection.noSearchFound",
                    IF status = "completed"
                    THEN [success |-> success, status |-> status,
                          selected_icons |-> icons, count |-> Len(icons)]
                    ELSE [success |-> success, status |-> status,
                          message |-> IF status = "failed"
                                      THEN "selection.selectionFailed"
                                      ELSE "selection.selectionTimeout"])]

\* (variant: the deadline itself still counts as before the deadline)
BeforeDeadlineInclusive(rec) == rec.elapsed <= rec.max_wait

\* (variant: the elapsed time is not looked at)
BeforeDeadlineNoClock(rec) == 0 < rec.max_wait

\* the loop condition of _check_selection: time.time() - start < max_wait_s
BeforeDeadline(rec) == rec.elapsed < rec.max_wait

\* (variant: the deadline stores a record of status TIMEOUT)
TimedOutStored(rec) ==
    [call |-> IdlePoll,
     cache |-> set_selection(rec.search_id,
                   SelectionData("timeout", rec.search_id, FALSE, <<>>)),
     reply |-> PollReply(rec.search_id, "timeout", FALSE, <<>>)]

\* the deadline of _check_selection has passed: the call returns timeout
\* and writes nothing
TimedOut(rec) ==
    [call |-> IdlePoll,
     cache |-> selection_cache,
     reply |-> PollReply(rec.search_id, "timeout", FALSE, <<>>)]

\* One pass of the while loop of _check_selection, from the test of the
\* deadline to the return or to asyncio.sleep(check_interval): the call as it
\* goes on, the selection cache it leaves and its answer (NoReply: it sleeps).
LoopPass(rec) ==
    IF BeforeDeadline(rec)
    THEN LET selection == get_selection(rec.search_id) IN
         IF selection # None /\ selection.status = "completed"
         THEN [call |-> IdlePoll,
               cache |-> delete_selection(rec.search_id),
               reply |-> PollReply(rec.search_id, "completed", TRUE,
                                   selection.selected_icons)]
         ELSE IF selection # None /\ selection.status = "failed"
         THEN [call |-> IdlePoll,
               cache |-> delete_selection(rec.search_id),
               reply |-> PollReply(rec.search_id, "failed", FALSE, <<>>)]
         ELSE [call |-> [rec EXCEPT !.pc = "sleep",
                                    !.sleep_left = CheckInterval,
                                    !.outstanding = None],
               cache |-> selection_cache,
               reply |-> NoReply]
    ELSE TimedOut(rec)

\* (variant: a consumed search id is refused)
SearchFoundUnconsumed(search_id) ==
    get_search(search_id) # None /\ search_id \notin returned

\* (variant: a stored selection record stands in for a search that is gone)
SearchFoundOrStored(search_id) ==
    get_search(search_id) # None \/ get_selection(search_id) # None

\* (variant: the selection record is looked up instead of the search)
SearchFoundBySelection(search_id) == get_selection(search_id) # None

\* the validation of _check_selection: a search is cached for search_id
SearchFound(search_id) == get_search(search_id) # None

\* what a pass of call p leaves in the table of calls (history: a record that
\* p consumed is no longer outstanding for the other calls on its search id)
PollsAfter(p, search_id, out) ==
    [q \in Polls |->
        IF q = p THEN out.call
        ELSE IF out.cache # selection_cache /\ poll[q].search_id = search_id
             THEN [poll[q] EXCEPT !.outstanding = None]
             ELSE poll[q]]

\* history: the ids for which a call has returned completed
ReturnedAfter(out) ==
    IF out.reply # NoReply /\ out.reply.status = "completed"
    THEN returned \cup {out.reply.search_id} ELSE returned

\* check_selection_status(searchId, maxWaitTime): the call up to its return
\* or to its first asyncio.sleep
CheckSelection(p, search_id, max_wait) ==
    /\ UNCHANGED webvars
    /\ p \in FirstFree(poll)
    /\ search_cache' = get_search_cache(search_id)
    /\ IF ~SearchFound(search_id)
       THEN /\ reply' = PollReply(search_id, "error", FALSE, <<>>)
            /\ UNCHANGED <<poll, selection_cache, returned>>
       ELSE LET rec == [IdlePoll EXCEPT !.search_id = search_id,
                                        !.max_wait = max_wait,
                                        !.after_consumed = search_id \in returned]
                out == LoopPass(rec)
            IN  /\ poll' = PollsAfter(p, search_id, out)
                /\ selection_cache' = out.cache
                /\ reply' = out.reply
                /\ returned' = ReturnedAfter(out)
    /\ UNCHANGED <<clock_ms, expiry_seconds, icon_cache, ws_clients, search,
                   conn, minted>>

\* asyncio.sleep(check_interval) returns: the next pass of the loop
PollWake(p) ==
    /\ UNCHANGED webvars
    /\ poll[p].pc = "sleep"
    /\ poll[p].sleep_left = 0
    /\ LET out == LoopPass(poll[p])
       IN  /\ poll' = PollsAfter(p, poll[p].search_id, out)
           /\ selection_cache' = out.cache
           /\ reply' = out.reply
           /\ returned' = ReturnedAfter(out)
    /\ UNCHANGED <<clock_ms, expiry_seconds, icon_cache, search_cache,
                   ws_clients, search, conn, minted>>

\* get_cache_stats
GetCacheStats ==
    /\ reply' = [op |-> "get_cache_stats", status |-> "ok", stats |-> get_stats]
    /\ UNCHANGED <<clock_ms, expiry_seconds, icon_cache, search_cache,
                   selection_cache, ws_clients, search, poll, conn, minted,
                   returned, webvars>>

\* (variant: a full clear empties the selection namespace too)
ClearedSelectionsToo(expired_only) ==
    IF expired_only THEN selection_cache ELSE <<>>

\* CacheManager.clear: the selection namespace it leaves
ClearedSelections(expired_only) == selection_cache

\* clear_cache(expiredOnly)
ClearCache(expired_only) ==
    /\ icon_cache' = Cleared(icon_cache, expired_only)
    /\ search_cache' = Cleared(search_cache, expired_only)
    /\ selection_cache' = ClearedSelections(expired_only)
    /\ reply' = [op |-> "clear_cache", status |-> "ok",
                 expired_only |-> expired_only,
                 icon_cleared |-> ClearedCount(icon_cache, expired_only),
                 search_cleared |-> ClearedCount(search_cache, expired_only)]
    /\ UNCHANGED <<clock_ms, expiry_seconds, ws_clients, search, poll, conn,
                   minted, returned, webvars>>

\* --------------------------------------------------------------- WebServer
\* (variant: the server is never found running)
is_running_never == FALSE

\* WebServer.is_running
is_running == site # None

\* the listening socket of the site is bound: requests reach the handlers
listening == site # None /\ site.bound

\* WebServer.get_url: f"http://localhost:{self.port}"
get_url(p) == <<"http://localhost:", p>>

\* _find_available_port(start_port) with the ports in busy taken by others:
\* the ports it can return
find_available_port(start_port, busy) ==
    LET free == {p \in start_port .. (start_port + PortSpan - 1) : p \notin busy}
    IN  IF free # {}
        THEN {p \in free : \A q \in free : p <= q}
        ELSE FallbackLow .. FallbackHigh

\* an optional argument: <<>> is None, <<v>> is the value v
NoArg == <<>>
Arg(v) == <<v>>

\* WebServer.start(port, auto_open) when the server is not running: the
\* port and the flag are taken over, a port is found with the ports in busy
\* in use, self._site is set and its socket is bound, unless the port is
\* among those in use by then (taken): site.start() raises OSError and
\* self._site stays set
StartSite(req_port, req_auto_open, busy, taken) ==
    /\ \E p \in find_available_port(
                  IF req_port # NoArg THEN req_port[1] ELSE port, busy) :
          /\ port' = p
          /\ site' = [port |-> p, bound |-> p \notin taken]
    /\ auto_open' = IF req_auto_open # NoArg THEN req_auto_open[1]
                    ELSE auto_open

\* the auto-start of _dispatch_tool after a search: start(auto_open=False)
\* if the server is not running
AutoStart(busy) ==
    IF is_running
    THEN UNCHANGED <<site, port, auto_open>>
    ELSE StartSite(NoArg, Arg(FALSE), busy, busy)

\* the auto-start raises OSError
AutoStartFails == ~is_running /\ ~site'.bound

\* GET /ws?searchId=...: from ws.prepare to the message loop
WsOpen(c, search_id) ==
    /\ UNCHANGED webvars
    /\ listening
    /\ c \in FirstFree(conn)
    /\ c \notin stop.pending
    /\ ws_clients' = ws_clients \cup {c}
    /\ selection_cache' =
          IF search_id # EmptyId
          THEN set_selection(search_id,
                   SelectionData("waiting", search_id, TRUE, <<>>))
          ELSE selection_cache
    /\ conn' = [d \in Conns |->
                  IF d = c
                  THEN [IdleConn EXCEPT !.pc = "open", !.search_id = search_id]
                  ELSE IF conn[d].pc = "grace" /\ conn[d].search_id = search_id
                       THEN [conn[d] EXCEPT !.reopened = TRUE]
                       ELSE conn[d]]
    /\ reply' = NoReply
    /\ UNCHANGED <<clock_ms, expiry_seconds, icon_cache, search_cache, search,
                   poll, minted, returned>>

Max(a, b) == IF a > b THEN a ELSE b

\* Python's seq[start:end]
PySlice(seq, start, end) ==
    LET n == Len(seq)
        norm(i) == IF i < 0 THEN Max(i + n, 0) ELSE Min(i, n)
        a == norm(start)
        b == norm(end)
    IN  IF a >= b THEN <<>> ELSE SubSeq(seq, a + 1, b)

\* (variant: the last, partial page is not counted)
TotalPagesFloor(n, page_size) == Max(1, n \div page_size)

\* max(1, (len(icons) + page_size - 1) // page_size)
TotalPages(n, page_size) == Max(1, (n + page_size - 1) \div page_size)

\* the answer of GET /api/cache (history: the parameters of the request;
\* evicted tells that the lookup deleted an expired search record)
CacheReply(status, request, body, evicted) ==
    [op |-> "cache_api", status |-> status, search_id |-> request[1],
     page |-> request[2], page_size |-> request[3],
     body |-> body, evicted |-> evicted]

\* GET /api/cache?searchId=..&page=..&pageSize=..
CacheApi(search_id, page, page_size) ==
    /\ listening
    /\ search_cache' = get_search_cache(search_id)
    /\ LET cached == get_search(search_id)
           evicted == search_cache' # search_cache
           request == <<search_id, page, page_size>>
       IN  IF cached = None
           THEN reply' = CacheReply(404, request, None, evicted)
           ELSE IF page_size = 0
           THEN reply' = CacheReply(500, request, None, evicted)
           ELSE LET start == (page - 1) * page_size
                    page_icons == PySlice(cached.icons, start, start + page_size)
                IN  reply' = CacheReply(200, request,
                        [icons |-> page_icons,
                         count |-> Len(page_icons),
                         totalCount |-> cached.total_count,
                         page |-> page,
                         pageSize |-> page_size,
                         totalPages |-> TotalPages(Len(cached.icons), page_size)],
                        evicted)
    /\ UNCHANGED <<clock_ms, expiry_seconds, icon_cache, selection_cache,
                   ws_clients, search, poll, conn, minted, returned, webvars>>

\* history: a terminal record written for search_id is outstanding for the
\* calls in flight on it
Outstanding(search_id, selection) ==
    [q \in Polls |->
        IF poll[q].pc = "sleep" /\ poll[q].search_id = search_id
        THEN [poll[q] EXCEPT !.outstanding = selection]
        ELSE poll[q]]

\* the test of the finally block before the sleep: a record is stored for
\* the connection's search id and is waiting
WaitingAtClose(search_id) ==
    /\ search_id # EmptyId
    /\ get_selection(search_id) # None
    /\ get_selection(search_id).status = "waiting"

\* the message loop ends (the peer closed, or an ERROR message): the finally
\* block up to asyncio.sleep(2), or to its end
WsClose(c) ==
    /\ UNCHANGED webvars
    /\ conn[c].pc = "open"
    /\ ws_clients' = ws_clients \ {c}
    /\ conn' = [conn EXCEPT ![c] =
                  IF WaitingAtClose(conn[c].search_id)
                  THEN [@ EXCEPT !.pc = "grace", !.sleep_left = GracePeriod]
                  ELSE [@ EXCEPT !.pc = "done"]]
    /\ reply' = NoReply
    /\ UNCHANGED <<clock_ms, expiry_seconds, icon_cache, search_cache,
                   selection_cache, search, poll, minted, returned>>

\* (variant: the status of the record read again is not looked at)
StillWaitingAnyStatus(selection) == selection # None

\* the test after the sleep: the record read again is waiting
StillWaiting(selection) == selection # None /\ selection.status = "waiting"

\* asyncio.sleep(2) returns: the record is read again and, when it is
\* waiting, overwritten with FAILED
WsGraceOver(c) ==
    /\ UNCHANGED webvars
    /\ conn[c].pc = "grace"
    /\ conn[c].sleep_left = 0
    /\ LET search_id == conn[c].search_id
           selection == get_selection(search_id)
       IN  /\ selection_cache' =
                 IF StillWaiting(selection)
                 THEN set_selection(search_id,
                          SelectionData("failed", search_id, FALSE, <<>>))
                 ELSE selection_cache
           /\ poll' = IF StillWaiting(selection)
                      THEN Outstanding(search_id,
                               SelectionData("failed", search_id, FALSE, <<>>))
                      ELSE poll
           /\ conn' = [conn EXCEPT ![c] =
                         [@ EXCEPT !.pc = "done", !.reopened = FALSE,
                                   !.reread = IF selection = None THEN "None"
                                              ELSE selection.status]]
    /\ reply' = NoReply
    /\ UNCHANGED <<clock_ms, expiry_seconds, icon_cache, search_cache,
                   ws_clients, search, minted, returned>>

\* the validation of _handle_save_api
SaveAccepted(icons, search_id) == icons # <<>> /\ search_id # EmptyId

SaveReply(status, count) == [op |-> "save", status |-> status, count |-> count]

\* POST /api/save with a JSON body {icons, searchId}
SaveApi(icons, search_id) ==
    /\ UNCHANGED webvars
    /\ listening
    /\ IF ~SaveAccepted(icons, search_id)
       THEN /\ reply' = SaveReply(400, 0)
            /\ UNCHANGED <<selection_cache, poll>>
       ELSE /\ selection_cache' =
                  set_selection(search_id,
                      SelectionData("completed", search_id, TRUE, icons))
            /\ reply' = SaveReply(200, Len(icons))
            /\ poll' = Outstanding(search_id,
                           SelectionData("completed", search_id, TRUE, icons))
    /\ UNCHANGED <<clock_ms, expiry_seconds, icon_cache, search_cache,
                   ws_clients, search, conn, minted, returned>>

\* POST /api/save with a body that is not JSON
SaveApiInvalidJson ==
    /\ UNCHANGED webvars
    /\ listening
    /\ reply' = SaveReply(400, 0)
    /\ UNCHANGED <<clock_ms, expiry_seconds, icon_cache, search_cache,
                   selection_cache, ws_clients, search, poll, conn, minted,
                   returned>>

\* (variant: serving the page marks the search id WAITING)
IndexSelectionsWaiting(search_id) ==
    IF search_id # EmptyId
    THEN set_selection(search_id, SelectionData("waiting", search_id, FALSE, <<>>))
    ELSE selection_cache

\* _handle_index: the selection namespace it leaves
IndexSelections(search_id) == selection_cache

\* GET /?searchId=...: the picking page is generated and served
IndexPage(search_id) ==
    /\ UNCHANGED webvars
    /\ listening
    /\ selection_cache' = IndexSelections(search_id)
    /\ reply' = [op |-> "index", status |-> 200]
    /\ UNCHANGED <<clock_ms, expiry_seconds, icon_cache, search_cache,
                   ws_clients, search, poll, conn, minted, returned>>

\* a text message {"type": "ping"} on an open connection: {"type": "pong"}
\* is sent back
WsPing(c) ==
    /\ UNCHANGED webvars
    /\ conn[c].pc = "open"
    /\ reply' = [op |-> "pong", search_id |-> conn[c].search_id]
    /\ UNCHANGED <<clock_ms, expiry_seconds, icon_cache, search_cache,
                   selection_cache, ws_clients, search, poll, conn, minted,
                   returned>>

\* POST /api/save with a JSON body that is not an object (a list, a string,
\* null): body.get raises AttributeError, which aiohttp answers with 500
SaveApiNotObject ==
    /\ UNCHANGED webvars
    /\ listening
    /\ reply' = SaveReply(500, 0)
    /\ UNCHANGED <<clock_ms, expiry_seconds, icon_cache, search_cache,
                   selection_cache, ws_clients, search, poll, conn, minted,
                   returned>>

\* ------------------------------------------------------------ IconSearcher
\* (variant: the id is the random suffix alone)
generate_search_id_no_clock(ms, rand_str) == <<0, rand_str>>

\* _generate_search_id: f"search_{int(time.time() * 1000)}_{rand_str}".
\* Ids are only ever compared for equality, so the clock readings are
\* numbered in the order in which ids used them: clock_ms moves on with the
\* first tick after an id has used its value.
generate_search_id(ms, rand_str) == <<ms, rand_str>>

\* the cache key of search_icons (s_type, from_collection and fills keep the
\* defaults: _dispatch_tool never passes them)
CacheKey(q, sort_type, page, page_size) == <<q, sort_type, page, page_size>>

\* the parameter validation of search_icons
\* (variant: the page is not validated)
ValidParamsNoPage(page, page_size) == page_size >= 1 /\ page_size <= 100

ValidParams(page, page_size) == page >= 1 /\ page_size >= 1 /\ page_size <= 100

\* the answer to a search_icons call: the result dict, or the exception
\* with its message (history: from_cache tells that the cache lookup
\* answered)
SearchReply(status, data, from_cache) ==
    [op |-> "search_icons", status |-> status, data |-> data,
     from_cache |-> from_cache,
     payload |-> call_tool(status # "ok",
                    CASE status = "ValueError" -> data
                      [] status = "TimeoutError" -> "error.timeout"
                      [] status = "OSError" -> "OSError"
                      [] OTHER -> "search.searchFailed",
                    data)]

\* the answer to a search_icons call whose upstream request failed
\* (history: evicted tells that the cache lookup of the call deleted an
\* expired entry)
SearchFailure(error, evicted) ==
    [op |-> "search_icons", status |-> error, data |-> None,
     from_cache |-> FALSE, evicted |-> evicted,
     payload |-> SearchReply(error, None, FALSE).payload]

\* the message of the ValueError of the validation
InvalidParams(page, page_size) ==
    IF page < 1 THEN "search.invalidPage" ELSE "search.invalidPageSize"

\* _dispatch_tool: result["web_url"] = f"{get_url()}?searchId={search_id}"
WithWebUrl(result, p) ==
    [f \in DOMAIN result \cup {"web_url"} |->
        IF f = "web_url" THEN <<get_url(p), result.search_id>> ELSE result[f]]

\* _dispatch_tool for search_icons after the search: the result with its
\* web_url, or the OSError of an auto-start that could not bind
SearchAnswer(result, from_cache) ==
    IF AutoStartFails
    THEN SearchReply("OSError", None, from_cache)
    ELSE SearchReply("ok", WithWebUrl(result, port'), from_cache)

\* the result of the cache lookup of search_icons
CachedResult(cache_key) == get_icon(cache_key)

\* search_icons(q, sortType, page, pageSize): validation and the cache
\* lookup, up to the return of a cached result or to the upstream request
\* (may_fetch bounds the upstream requests of a run)
SearchIcons(k, q, sort_type, page, page_size, may_fetch, busy) ==
    /\ k \in FirstFree(search)
    /\ IF ~ValidParams(page, page_size)
       THEN /\ reply' = SearchReply("ValueError",
                                    InvalidParams(page, page_size), FALSE)
            /\ UNCHANGED <<icon_cache, search, webvars>>
       ELSE LET cache_key == CacheKey(q, sort_type, page, page_size)
                cached == CachedResult(cache_key)
            IN  /\ icon_cache' = get_icon_cache(cache_key)
                /\ IF cached # None
                   THEN /\ AutoStart(busy)
                        /\ reply' = SearchAnswer(cached, TRUE)
                        /\ UNCHANGED <<search, stop, client>>
                   ELSE /\ may_fetch
                        /\ search' = [search EXCEPT ![k] =
                              [pc |-> "fetch", key |-> cache_key,
                               args |-> <<q, page, page_size>>,
                               evicted |-> icon_cache' # icon_cache]]
                        /\ client' = "open"
                        /\ reply' = NoReply
                        /\ UNCHANGED <<site, port, auto_open, stop>>
    /\ UNCHANGED <<clock_ms, expiry_seconds, search_cache, selection_cache,
                   ws_clients, poll, conn, minted, returned>>

\* the upstream API answers with code 200: the id is minted, the result is
\* built and cached under the cache key, the search record under the id
\* (set_icon reads the clock before set_search does, with no await between:
\* the search record is never the older of the two)
UpstreamOk(k, icons_data, total_count, rand_str, busy) ==
    /\ search[k].pc = "fetch"
    /\ client = "open"
    /\ AutoStart(busy)
    /\ UNCHANGED <<stop, client>>
    /\ LET q == search[k].args[1]
           page == search[k].args[2]
           page_size == search[k].args[3]
           search_id == generate_search_id(clock_ms, rand_str)
           result == [search_id |-> search_id, query |-> q,
                      count |-> Len(icons_data), total_count |-> total_count,
                      page |-> page, page_size |-> page_size,
                      icons |-> icons_data]
       IN  /\ icon_cache' = set_icon(icon_cache, search[k].key, result)
           /\ search_cache' = set_search(search_cache, search_id,
                  [query |-> q, page |-> page, page_size |-> page_size,
                   icons |-> icons_data, total_count |-> total_count])
           /\ minted' = minted \cup {search_id}
           /\ reply' = SearchAnswer(result, FALSE)
           /\ search' = [search EXCEPT ![k] = IdleSearch]
    /\ UNCHANGED <<clock_ms, expiry_seconds, selection_cache, ws_clients, poll,
                   conn, returned>>

\* the upstream request fails: httpx.TimeoutException (TimeoutError), any
\* other exception or an answer whose code is not 200 (RuntimeError)
UpstreamFails(k, error) ==
    /\ UNCHANGED webvars
    /\ search[k].pc = "fetch"
    /\ reply' = SearchFailure(error, search[k].evicted)
    /\ search' = [search EXCEPT ![k] = IdleSearch]
    /\ UNCHANGED <<clock_ms, expiry_seconds, icon_cache, search_cache,
                   selection_cache, ws_clients, poll, conn, minted, returned>>

\* ---------------------------------------------- MCPIconServer (lifecycle)
\* the answer of a web server tool
ToolReply(op, payload) == [op |-> op, payload |-> payload]

\* a tool name that _dispatch_tool does not know: ValueError
UnknownTool(name) ==
    /\ reply' = ToolReply(name, call_tool(TRUE, "error.methodNotFound", None))
    /\ UNCHANGED <<clock_ms, expiry_seconds, icon_cache, search_cache,
                   selection_cache, ws_clients, search, poll, conn, minted,
                   returned, webvars>>

\* the answer of start_web_server (history: the port the probing started
\* from and the ports in use by others during the call)
StartReply(payload, start_port, busy) ==
    [op |-> "start_web_server", payload |-> payload,
     start_port |-> start_port, busy |-> busy]

\* the start_web_server tool: WebServer.start(port, auto_open), autoOpen
\* defaulting to True; a running server answers with what it has; a start
\* that cannot bind raises OSError
StartWebServer(req_port, req_auto_open, busy, taken) ==
    LET start_port == IF req_port # NoArg THEN req_port[1] ELSE port IN
    IF is_running
    THEN /\ reply' = StartReply([message |-> "webServerAlreadyRunning",
                                 port |-> port, url |-> get_url(port)],
                                start_port, taken)
         /\ UNCHANGED <<clock_ms, expiry_seconds, icon_cache, search_cache,
                        selection_cache, ws_clients, search, poll, conn,
                        minted, returned, webvars>>
    ELSE /\ StartSite(req_port, Arg(req_auto_open), busy, taken)
         /\ reply' = StartReply(
                        call_tool(~site'.bound, "OSError",
                            [message |-> "webServerStarted", port |-> port',
                             url |-> get_url(port'), websocket |-> TRUE]),
                        start_port, taken)
         /\ UNCHANGED <<clock_ms, expiry_seconds, icon_cache, search_cache,
                        selection_cache, ws_clients, search, poll, conn,
                        minted, returned, stop, client>>

\* the message loop of a connection ends: its finally block up to
\* asyncio.sleep(2), or to its end (as in WsClose)
LoopEnds(r) ==
    IF r.pc # "open" THEN r
    ELSE IF WaitingAtClose(r.search_id)
         THEN [r EXCEPT !.pc = "grace", !.sleep_left = GracePeriod]
         ELSE [r EXCEPT !.pc = "done"]

\* the answer of WebServer.stop to its caller
Stopped(by) ==
    IF by = "tool"
    THEN ToolReply("stop_web_server", [message |-> "webServerStopped"])
    ELSE NoReply

\* WebServer.stop from the return of its last ws.close(): the tracked set
\* is cleared; with a runner, runner.cleanup() is awaited (the listening
\* socket is released, then aiohttp closes the connections still open),
\* self._site still set; without one stop runs to its end
Released(by) ==
    /\ ws_clients' = {}
    /\ conn' = [c \in Conns |-> LoopEnds(conn[c])]
    /\ IF is_running
       THEN /\ site' = [site EXCEPT !.bound = FALSE]
            /\ stop' = [pc |-> "cleanup", pending |-> {}, by |-> by]
            /\ reply' = NoReply
       ELSE /\ site' = None
            /\ stop' = IdleStop
            /\ reply' = Stopped(by)

\* WebServer.stop up to its first await: list(self._ws_clients) is taken;
\* with nothing to close it goes on to the runner
StopFrom(by) ==
    /\ stop.pc = "idle"
    /\ IF ws_clients = {}
       THEN Released(by)
       ELSE /\ stop' = [pc |-> "closing", pending |-> ws_clients, by |-> by]
            /\ reply' = NoReply
            /\ UNCHANGED <<ws_clients, conn, site>>
    /\ UNCHANGED <<clock_ms, expiry_seconds, icon_cache, search_cache,
                   selection_cache, search, poll, minted, returned, port,
                   auto_open>>

\* the stop_web_server tool: WebServer.stop, whether running or not
StopWebServer == StopFrom("tool") /\ UNCHANGED client

\* IconSearcher.close
Closed(c) == IF c = "open" THEN "closed" ELSE c

\* _cleanup: the upstream HTTP client is closed, then a running web server
\* is stopped
Cleanup ==
    /\ client' = Closed(client)
    /\ IF is_running
       THEN StopFrom("cleanup")
       ELSE /\ stop.pc = "idle"
            /\ reply' = NoReply
            /\ UNCHANGED <<clock_ms, expiry_seconds, icon_cache, search_cache,
                           selection_cache, ws_clients, search, poll, conn,
                           minted, returned, site, port, auto_open, stop>>

\* await ws.close() returns for one connection of the list: its message
\* loop ends (a connection that ended by itself in the meantime is left
\* alone); after the last one stop goes on to the runner
StopCloseOne(c) ==
    /\ stop.pc = "closing"
    /\ c \in stop.pending
    /\ IF stop.pending = {c}
       THEN Released(stop.by)
       ELSE /\ stop' = [stop EXCEPT !.pending = @ \ {c}]
            /\ conn' = [conn EXCEPT ![c] = LoopEnds(@)]
            /\ ws_clients' = ws_clients \ {c}
            /\ reply' = NoReply
            /\ UNCHANGED site
    /\ UNCHANGED <<clock_ms, expiry_seconds, icon_cache, search_cache,
                   selection_cache, search, poll, minted, returned, port,
                   auto_open, client>>

\* runner.cleanup() returns: self._site = None, and stop returns
StopDone ==
    /\ stop.pc = "cleanup"
    /\ site' = None
    /\ stop' = IdleStop
    /\ reply' = Stopped(stop.by)
    /\ UNCHANGED <<clock_ms, expiry_seconds, icon_cache, search_cache,
                   selection_cache, ws_clients, search, poll, conn, minted,
                   returned, port, auto_open, client>>

\* --------------------------------------------------------- specifications
\* no search id minted and no upstream request under way
NoSearchYet == minted = {} /\ \A k \in SearchCalls : search[k].pc = "idle"

\* maxWaitTime arguments that run out before the grace period does
ShortWaits == {w \in MaxWaits : w < GracePeriod}

\* The handoff of the selection of one search: the search, the browser with
\* connections in the slots conns, and check_selection_status calls in the
\* slots polls with maxWaitTime in waits.
Handoff(polls, conns, waits) ==
    \/ Tick
    \/ \E k \in SearchCalls :
          SearchIcons(k, "home", "recommend", 1, 100, NoSearchYet, {})
    \/ \E k \in SearchCalls, icons \in UpstreamIcons :
          UpstreamOk(k, icons, Len(icons), "r1", {})
    \/ \E k \in SearchCalls : UpstreamFails(k, "TimeoutError")
    \/ \E p \in polls, id \in KnownIds, w \in waits : CheckSelection(p, id, w)
    \/ \E p \in polls : PollWake(p)
    \/ \E c \in conns, id \in minted \cup {EmptyId} : WsOpen(c, id)
    \/ \E c \in conns : WsClose(c)
    \/ \E c \in conns : WsGraceOver(c)
    \/ \E icons \in ItemLists, id \in minted \cup {EmptyId} : SaveApi(icons, id)
    \/ SaveApiInvalidJson

\* one call and one connection at a time
Next ==
    \/ Handoff({1}, {1}, MaxWaits)
    \/ SaveApiNotObject
    \/ \E id \in minted : IndexPage(id)
    \/ WsPing(1)

Spec == Init /\ [][Next]_vars

\* two connections at a time, calls with short deadlines
NextConns == Handoff({1}, Conns, ShortWaits)

SpecConns == Init /\ [][NextConns]_vars

\* two calls at a time
NextPolls == Handoff(Polls, {1}, MaxWaits)

SpecPolls == Init /\ [][NextPolls]_vars

\* The handoff with a cache that is cleared under it
NextGone ==
    \/ Handoff({1}, {1}, MaxWaits)
    \/ \E expired_only \in BOOLEAN : ClearCache(expired_only)

SpecGone == Init /\ [][NextGone]_vars

\* The handoff with the scheduling of the event loop: time passes, and a
\* coroutine whose sleep has run out is resumed.
Fairness ==
    /\ WF_vars(Tick)
    /\ \A p \in Polls : WF_vars(PollWake(p))
    /\ \A c \in Conns : WF_vars(WsGraceOver(c))

SpecLive == Init /\ [][Next]_vars /\ Fairness

\* the upstream requests of a run, answered and under way
Fetches ==
    Cardinality(minted)
      + Cardinality({k \in SearchCalls : search[k].pc = "fetch"})

\* the upstream requests of a run of the search specification are bounded
MayFetch == Fetches < MaxMinted

\* the page and pageSize of the searches: valid, page below 1, pageSize
\* below 1 and above 100
SearchArgs == {<<1, 100>>, <<0, 100>>, <<1, 0>>, <<1, 101>>}

\* Searches alone: two calls at a time, repeated and different queries,
\* valid and invalid pages, the upstream API answering or failing.
NextSearch ==
    \/ Tick
    \/ MsPass
    \/ \E k \in SearchCalls, q \in Queries, a \in SearchArgs :
          SearchIcons(k, q, "recommend", a[1], a[2], MayFetch, {})
    \/ \E k \in SearchCalls, icons \in UpstreamIcons, r \in Suffixes :
          UpstreamOk(k, icons, Len(icons), r, {})
    \/ \E k \in SearchCalls, e \in {"TimeoutError", "RuntimeError"} :
          UpstreamFails(k, e)
    \/ \E p \in Polls : CheckSelection(p, BogusId, 0)
    \/ UnknownTool("nonexistent_tool")

SpecSearch == Init /\ [][NextSearch]_vars

\* the icon lists of the cache specification
CacheIconLists == {<<>>, <<"i1", "i2">>}

\* The cache: searches that fill it, submissions that fill the selection
\* namespace, time that ages it, and the operations that read and clear it.
NextCache ==
    \/ Tick
    \/ \E k \in SearchCalls, q \in Queries :
          SearchIcons(k, q, "recommend", 1, 100, Fetches < MaxCached, {})
    \/ \E k \in SearchCalls, icons \in CacheIconLists :
          UpstreamOk(k, icons, Len(icons), "r1", {})
    \/ \E k \in SearchCalls : UpstreamFails(k, "RuntimeError")
    \/ GetCacheStats
    \/ \E expired_only \in BOOLEAN : ClearCache(expired_only)
    \/ \E id \in KnownIds : CacheApi(id, 1, 10)
    \/ \E id \in minted : SaveApi(<<"a">>, id)

SpecCache == Init /\ [][NextCache]_vars

\* The selection namespace under the operations that reach the cache: a
\* search made again once its result has expired or was cleared (as many
\* upstream requests as there are call slots), with a record for each of its
\* ids, the browser, a call and the cache tools.
NextFrame ==
    \/ Tick
    \/ SearchIcons(1, "home", "recommend", 1, 100,
                   Fetches < Cardinality(SearchCalls), {})
    \/ UpstreamOk(1, <<"i1">>, 1, "r1", {})
    \/ \E id \in minted, w \in ShortWaits : CheckSelection(1, id, w)
    \/ PollWake(1)
    \/ \E id \in minted : WsOpen(1, id)
    \/ WsClose(1)
    \/ WsGraceOver(1)
    \/ \E id \in minted : SaveApi(<<"a">>, id)
    \/ \E id \in minted : CacheApi(id, 1, 10)
    \/ \E expired_only \in BOOLEAN : ClearCache(expired_only)

SpecFrame == Init /\ [][NextFrame]_vars

\* the icon lists of the pagination specification: none, a few, 23 items
PageIconLists == {<<>>, <<"i1", "i2">>, [i \in 1..23 |-> i]}
\* the page and pageSize parameters of GET /api/cache
Pages == 0..4
PageSizes == {0, 1, 10}

\* The pagination route over the results of a repeated search.
NextPages ==
    \/ Tick
    \/ \E k \in SearchCalls :
          SearchIcons(k, "home", "recommend", 1, 100, Fetches < MaxCached, {})
    \/ \E k \in SearchCalls, icons \in PageIconLists :
          UpstreamOk(k, icons, Len(icons), "r1", {})
    \/ \E k \in SearchCalls : UpstreamFails(k, "RuntimeError")
    \/ \E id \in KnownIds, page \in Pages, page_size \in PageSizes :
          CacheApi(id, page, page_size)

SpecPages == Init /\ [][NextPages]_vars

\* the ports asked of start_web_server, and the ports taken by others
RequestedPorts == {NoArg, Arg(19999)}
BusyPorts == {{}, {DefaultPort}}

\* The web server's life: started by the tool or by a search, stopped by
\* the tool or by _cleanup, with connections opening and closing meanwhile.
NextWeb ==
    \/ Tick
    \/ \E req_port \in RequestedPorts, req_auto_open \in BOOLEAN,
          busy \in BusyPorts, taken \in BusyPorts :
          StartWebServer(req_port, req_auto_open, busy, busy \cup taken)
    \/ StopWebServer
    \/ Cleanup
    \/ \E c \in Conns : StopCloseOne(c)
    \/ StopDone
    \/ \E c \in Conns : WsOpen(c, EmptyId)
    \/ \E c \in Conns : WsClose(c)
    \/ \E k \in SearchCalls :
          SearchIcons(k, "home", "recommend", 1, 100, minted = {}, {})
    \/ \E k \in SearchCalls : UpstreamOk(k, <<"i1">>, 1, "r1", {})
    \/ \E k \in SearchCalls : UpstreamFails(k, "RuntimeError")

SpecWeb == Init /\ [][NextWeb]_vars

\* the ports in use by others in the port specification: none, the
\* requested one, the whole range probed from it, and that range with the
\* lowest fallback port
PortSets ==
    {{}, {DefaultPort}, DefaultPort .. (DefaultPort + PortSpan - 1),
     (DefaultPort .. (DefaultPort + PortSpan - 1)) \cup {FallbackLow}}

\* Starting and stopping the web server over ports in use; a server that
\* has come to a fallback port is not stopped again.
NextPorts ==
    \/ \E req_port \in {NoArg, Arg(DefaultPort)}, busy \in PortSets :
          StartWebServer(req_port, FALSE, busy, busy)
    \/ port < FallbackLow /\ StopWebServer
    \/ StopDone

SpecPorts == Init /\ [][NextPorts]_vars

\* ------------------------------------------------------------- properties
\* the step resumes call p from its sleep (PollWake(p))
Woke(p) ==
    /\ poll[p].pc = "sleep"
    /\ poll[p].sleep_left = 0
    /\ poll'[p].pc = "idle" \/ poll'[p].sleep_left > 0

\* call p is before its deadline: its next pass reads the record
Reads(p) == poll[p].elapsed < poll[p].max_wait

\* the step is a check_selection_status call that goes to sleep in slot p
Slept(p) == poll[p].pc = "idle" /\ poll'[p].pc = "sleep"

\* the step is a check_selection_status call that returns at once
ReturnedAtOnce ==
    /\ reply'.op = "check_selection_status"
    /\ \A p \in Polls : poll[p].pc = "sleep" => poll'[p].pc = "sleep"

\* C1: a submission accepted while a call on its search id is in flight is
\* returned by that call at its next read of the record: completed, with
\* exactly the submitted items.
C1_SubmissionReturnedAtNextRead ==
    [][\A p \in Polls :
          (/\ Woke(p)
           /\ Reads(p)
           /\ poll[p].outstanding # None
           /\ poll[p].outstanding.status = "completed")
          => reply' = PollReply(poll[p].search_id, "completed", TRUE,
                                poll[p].outstanding.selected_icons)]_vars

\* C2 as stated: once a call has returned completed for a search id, a later
\* call on that id fails with not-found, so none is ever found waiting.
C2_LaterCallNotFound ==
    \A p \in Polls : poll[p].pc = "sleep" => ~poll[p].after_consumed

\* C2: a call made after a completed return for its search id fails with
\* not-found exactly when no unexpired search record is cached for the id;
\* otherwise it is served like any other call.
C2_LaterCallFailsIffSearchGone ==
    [][/\ \A p \in Polls :
             Slept(p) /\ poll'[p].search_id \in returned
             => get_search(poll'[p].search_id) # None
       /\ ReturnedAtOnce /\ reply'.search_id \in returned
             => (reply'.status = "error"
                   <=> get_search(reply'.search_id) = None)
      ]_vars

\* a call made after the record was consumed is waiting
C2_Witness ==
    \E p \in Polls :
        /\ poll[p].pc = "sleep"
        /\ poll[p].after_consumed
        /\ poll[p].search_id \in returned
        /\ get_selection(poll[p].search_id) = None

\* C3: when a connection for the same search id was opened again before the
\* grace period of a closed one ran out, the closed one's timer writes no
\* FAILED: a record that is waiting when the timer fires is waiting after.
C3_ReopenKeepsWaiting ==
    [][\A c \in Conns :
          (/\ conn[c].pc = "grace"
           /\ conn'[c].pc = "done"
           /\ conn[c].reopened
           /\ StillWaiting(get_selection(conn[c].search_id)))
          => selection_cache'[conn[c].search_id].status = "waiting"]_vars

\* C4: no step turns a COMPLETED record into a FAILED one, and the
\* disconnect path writes (FAILED, in the step that re-reads the record)
\* only when the record it re-reads is WAITING.
C4_CompletedNeverFailed ==
    [][/\ \A id \in DOMAIN selection_cache :
             selection_cache[id].status = "completed"
                /\ id \in DOMAIN selection_cache'
             => selection_cache'[id].status # "failed"
       /\ \A c \in Conns :
             conn[c].pc = "grace" /\ conn'[c].pc = "done"
             => LET id == conn[c].search_id IN
                IF id \in DOMAIN selection_cache
                      /\ selection_cache[id].status = "waiting"
                THEN /\ selection_cache'[id].status = "failed"
                     /\ conn'[c].reread = "waiting"
                ELSE selection_cache' = selection_cache
      ]_vars

\* a submission arrived during the grace period: the timer found COMPLETED
\* and left it
C4_Witness ==
    \E c \in Conns :
        /\ conn[c].pc = "done"
        /\ conn[c].reread = "completed"
        /\ get_selection(conn[c].search_id) # None
        /\ get_selection(conn[c].search_id).status = "completed"

\* C5: when the grace period of a closed connection has run out with no
\* submission and no new connection, and FAILED was written, a call in
\* flight on the search id returns failed at its next read of the record.
C5_AbandonedPollFails ==
    [][\A p \in Polls :
          (/\ Woke(p)
           /\ Reads(p)
           /\ poll[p].outstanding # None
           /\ poll[p].outstanding.status = "failed")
          => reply' = PollReply(poll[p].search_id, "failed", FALSE, <<>>)
      ]_vars

\* C6: a call on a search id with no search record fails at once with
\* not-found: it does not go to sleep, and it leaves the calls in flight and
\* every namespace of the cache as they were.
C6_UnknownIdFailsAtOnce ==
    [][/\ \A p \in Polls :
             Slept(p) => poll'[p].search_id \in DOMAIN search_cache
       /\ ReturnedAtOnce /\ reply'.search_id \notin DOMAIN search_cache
             => /\ reply' = PollReply(reply'.search_id, "error", FALSE, <<>>)
                /\ UNCHANGED <<poll, icon_cache, search_cache,
                               selection_cache, returned>>
      ]_vars

\* not-found for an id whose search record is gone while a submission is
\* stored for it: the record is neither returned nor deleted
C6_Witness ==
    /\ reply.op = "check_selection_status"
    /\ reply.status = "error"
    /\ reply.search_id \notin DOMAIN search_cache
    /\ get_selection(reply.search_id) # None
    /\ get_selection(reply.search_id).status = "completed"

\* a new call on id with deadline w, as CheckSelection starts it
FreshCall(id, w) == [IdlePoll EXCEPT !.search_id = id, !.max_wait = w]

\* C7: a call that returns timeout leaves the selection records as they
\* were; with maxWaitTime 0 a call on a WAITING record returns timeout
\* without touching it; and a new call with a later deadline on a search
\* that is still cached returns a stored submission as completed.
C7_TimeoutLeavesRecord ==
    /\ [](\A id \in DOMAIN selection_cache :
            /\ selection_cache[id].status = "waiting"
               => /\ LoopPass(FreshCall(id, 0)).reply
                        = PollReply(id, "timeout", FALSE, <<>>)
                  /\ LoopPass(FreshCall(id, 0)).cache = selection_cache
            /\ selection_cache[id].status = "completed"
               => \A w \in MaxWaits \ {0} :
                     LoopPass(FreshCall(id, w)).reply
                        = PollReply(id, "completed", TRUE,
                                    selection_cache[id].selected_icons))
    /\ [][reply'.op = "check_selection_status" /\ reply'.status = "timeout"
          => selection_cache' = selection_cache]_vars

\* a call has just timed out on a record that is still waiting
C7_Witness ==
    /\ reply.op = "check_selection_status"
    /\ reply.status = "timeout"
    /\ get_selection(reply.search_id) # None
    /\ get_selection(reply.search_id).status = "waiting"

\* C8: every call returns, with completed, failed, timeout or not-found,
\* and a call that sleeps wakes no later than one polling interval after
\* its deadline.
C8_PollTerminates ==
    /\ \A p \in Polls : (poll[p].pc = "sleep") ~> (poll[p].pc = "idle")
    /\ [](\A p \in Polls :
            poll[p].pc = "sleep"
            => poll[p].elapsed + poll[p].sleep_left
                  <= poll[p].max_wait + CheckInterval)
    /\ [][reply'.op = "check_selection_status"
          => reply'.status \in {"completed", "failed", "timeout", "error"}
      ]_vars

\* a call with a deadline is about to wake at its deadline, nothing having
\* been written for it
C8_Witness ==
    \E p \in Polls :
        /\ poll[p].pc = "sleep"
        /\ poll[p].max_wait > 0
        /\ poll[p].elapsed = poll[p].max_wait
        /\ poll[p].sleep_left = 0
        /\ get_selection(poll[p].search_id) = None

\* C9: a call returns completed or failed only for a record of that status
\* stored at the step, with its items, and deletes it in the same step: no
\* record is stored for the id right after, and no other call returns in
\* the step.
C9_ConsumedOnce ==
    [][reply'.op = "check_selection_status"
          /\ reply'.status \in {"completed", "failed"}
       => LET id == reply'.search_id IN
          /\ id \in DOMAIN selection_cache
          /\ selection_cache[id].status = reply'.status
          /\ reply'.status = "completed"
                => reply'.selected_icons = selection_cache[id].selected_icons
          /\ id \notin DOMAIN selection_cache'
          /\ Cardinality({p \in Polls : poll[p].pc = "sleep"
                                          /\ poll'[p].pc = "idle"}) <= 1
      ]_vars

\* one of two calls on the same id has returned the submission, the record
\* is gone and the other call still waits
C9_Witness ==
    /\ reply.op = "check_selection_status"
    /\ reply.status = "completed"
    /\ reply.search_id \notin DOMAIN selection_cache
    /\ \E q \in Polls : /\ poll[q].pc = "sleep"
                        /\ poll[q].search_id = reply.search_id

AllIds == (0 .. (MaxMinted + 1)) \X Suffixes

\* the step is the return of search_icons call k after its upstream fetch
FetchedBy(k) ==
    /\ search[k].pc = "fetch"
    /\ search'[k].pc = "idle"
    /\ reply'.op = "search_icons"
    /\ reply'.status = "ok"

\* the step is the cache lookup of search_icons call k, and it missed
LookupMissBy(k) == search[k].pc = "idle" /\ search'[k].pc = "fetch"

\* C11: in the icon and the search namespace a get right after the set of
\* a key returns the value set; a get of an entry whose age exceeds the
\* expiry returns absent and deletes the entry in the same call, so the
\* total of the stats drops by one; a get of any other entry returns its
\* value and deletes nothing.
C11_SetGetAndExpiry ==
    [][/\ \A k \in SearchCalls :
             FetchedBy(k)
             => LET data == reply'.data IN
                /\ \E key \in DOMAIN icon_cache' :
                      /\ key = search[k].key
                      /\ get_icon(key)' # None
                      /\ WithWebUrl(get_icon(key)', port') = data
                /\ \A id \in AllIds :
                      id = data.search_id
                      => get_search(id)'
                            = [query |-> data.query, page |-> data.page,
                               page_size |-> data.page_size,
                               icons |-> data.icons,
                               total_count |-> data.total_count]
       /\ \A k \in SearchCalls :
             LookupMissBy(k) /\ search'[k].key \in DOMAIN icon_cache
             => LET key == search'[k].key IN
                /\ icon_cache[key].age > expiry_seconds
                /\ key \notin DOMAIN icon_cache'
                /\ get_stats'.icon_cache.total = get_stats.icon_cache.total - 1
       /\ reply'.op = "search_icons" /\ reply'.from_cache
             => LET data == reply'.data
                    key == CacheKey(data.query, "recommend", data.page,
                                    data.page_size)
                IN  /\ key \in DOMAIN icon_cache
                    /\ icon_cache[key].age <= expiry_seconds
                    /\ WithWebUrl(icon_cache[key].data, port') = data
                    /\ icon_cache' = icon_cache
       /\ reply'.op = "cache_api"
             => LET id == reply'.search_id IN
                IF id \in DOMAIN search_cache
                      /\ search_cache[id].age > expiry_seconds
                THEN /\ reply'.status = 404
                     /\ id \notin DOMAIN search_cache'
                     /\ get_stats'.search_cache.total
                           = get_stats.search_cache.total - 1
                ELSE /\ search_cache' = search_cache
                     /\ id \in DOMAIN search_cache => reply'.status # 404
      ]_vars

\* a lookup has just found a search record older than the expiry, answered
\* not-found and deleted it
C11_Witness ==
    /\ reply.op = "cache_api"
    /\ reply.status = 404
    /\ reply.evicted
    /\ reply.search_id \in minted
    /\ reply.search_id \notin DOMAIN search_cache

\* the keys of a timestamped namespace whose entries are older than the expiry
OlderThanTtl(cache) == {k \in DOMAIN cache : cache[k].age > expiry_seconds}

\* C12: clear_cache(expiredOnly=true) removes from the icon and the search
\* namespace exactly the entries older than the expiry, keeps every other
\* entry as it is and returns the number removed from each namespace;
\* clear_cache(expiredOnly=false) empties both namespaces and returns the
\* sizes they had.
C12_ClearCounts ==
    [][reply'.op = "clear_cache"
       => IF reply'.expired_only
          THEN /\ DOMAIN icon_cache' = DOMAIN icon_cache \ OlderThanTtl(icon_cache)
               /\ \A k \in DOMAIN icon_cache' : icon_cache'[k] = icon_cache[k]
               /\ reply'.icon_cleared = Cardinality(OlderThanTtl(icon_cache))
               /\ DOMAIN search_cache'
                     = DOMAIN search_cache \ OlderThanTtl(search_cache)
               /\ \A k \in DOMAIN search_cache' :
                     search_cache'[k] = search_cache[k]
               /\ reply'.search_cleared
                     = Cardinality(OlderThanTtl(search_cache))
          ELSE /\ icon_cache' = <<>>
               /\ search_cache' = <<>>
               /\ reply'.icon_cleared = Cardinality(DOMAIN icon_cache)
               /\ reply'.search_cleared = Cardinality(DOMAIN search_cache)
      ]_vars

\* clear_cache(expiredOnly=true) has just removed an expired entry from each
\* namespace and kept a younger one
C12_Witness ==
    /\ reply.op = "clear_cache"
    /\ reply.expired_only
    /\ reply.icon_cleared = 1
    /\ reply.search_cleared = 1
    /\ Cardinality(DOMAIN icon_cache) = 1
    /\ Cardinality(DOMAIN search_cache) = 1

\* the entries of a timestamped namespace that are not older than the expiry
NotOlderThanTtl(cache) == DOMAIN cache \ OlderThanTtl(cache)

\* C13: get_cache_stats changes no namespace; for the icon and the search
\* namespace it reports valid = the entries with age <= expiry, expired =
\* those with age > expiry and total = those present (valid + expired), and
\* for the selection namespace its size.  Before any search has succeeded
\* the icon total is 0.
C13_StatsCounts ==
    /\ [][reply'.op = "get_cache_stats"
          => LET st == reply'.stats IN
             /\ UNCHANGED <<icon_cache, search_cache, selection_cache>>
             /\ st.icon_cache.valid = Cardinality(NotOlderThanTtl(icon_cache))
             /\ st.icon_cache.expired = Cardinality(OlderThanTtl(icon_cache))
             /\ st.icon_cache.total = Cardinality(DOMAIN icon_cache)
             /\ st.icon_cache.valid + st.icon_cache.expired
                   = st.icon_cache.total
             /\ st.search_cache.valid
                   = Cardinality(NotOlderThanTtl(search_cache))
             /\ st.search_cache.expired
                   = Cardinality(OlderThanTtl(search_cache))
             /\ st.search_cache.total = Cardinality(DOMAIN search_cache)
             /\ st.search_cache.valid + st.search_cache.expired
                   = st.search_cache.total
             /\ st.selection_cache.total
                   = Cardinality(DOMAIN selection_cache)
         ]_vars
    /\ [](minted = {} => get_stats.icon_cache.total = 0)

\* the stats have just reported a valid and an expired entry in each
\* timestamped namespace, with a selection record stored
C13_Witness ==
    /\ reply.op = "get_cache_stats"
    /\ reply.stats.icon_cache.valid = 1
    /\ reply.stats.icon_cache.expired = 1
    /\ reply.stats.search_cache.valid = 1
    /\ reply.stats.search_cache.expired = 1
    /\ reply.stats.selection_cache.total >= 1
    /\ \E k \in DOMAIN search_cache : search_cache[k].age = expiry_seconds

\* the least t with t * d >= n
CeilDiv(n, d) == CHOOSE t \in 0..n : t * d >= n /\ (t = 0 \/ (t - 1) * d < n)

\* the items of seq at the positions from (0-based) up to but excluding to
Positions(seq, from, to) ==
    [i \in 1 .. Max(0, Min(Len(seq), to) - from) |-> seq[from + i]]

\* C14: for a cached search record with n items, page >= 1 and pageSize
\* >= 1, GET /api/cache answers without error with the items at positions
\* (page-1)*pageSize up to but excluding min(n, page*pageSize), in order
\* (none for a page past the end), and totalPages = max(1,
\* ceil(n/pageSize)); for a search id with no record it answers not-found.
C14_Pagination ==
    [][reply'.op = "cache_api"
       => LET id == reply'.search_id
              page == reply'.page
              page_size == reply'.page_size
          IN  IF id \notin DOMAIN search_cache
              THEN reply'.status = 404
              ELSE search_cache[id].age <= expiry_seconds
                      /\ page >= 1 /\ page_size >= 1
                   => LET icons == search_cache[id].data.icons
                          n == Len(icons)
                      IN  /\ reply'.status = 200
                          /\ reply'.body.icons
                                = Positions(icons, (page - 1) * page_size,
                                            page * page_size)
                          /\ reply'.body.count = Len(reply'.body.icons)
                          /\ reply'.body.totalPages
                                = Max(1, CeilDiv(n, page_size))
      ]_vars

\* page 3 of 23 items by 10 has just been answered: the last 3 items, and
\* totalPages = 3
C14_Witness ==
    /\ reply.op = "cache_api"
    /\ reply.status = 200
    /\ reply.page = 3
    /\ reply.page_size = 10
    /\ reply.body.icons = <<21, 22, 23>>
    /\ reply.body.count = 3
    /\ reply.body.totalPages = 3

\* C15: start_web_server while the server is running changes nothing (the
\* port, the auto-open flag, the listening socket, the connections), also
\* when another port is asked for, and answers with the port and the url
\* the server already has.
C15_StartIdempotent ==
    [][reply'.op = "start_web_server" /\ site # None
       => /\ UNCHANGED <<site, port, auto_open, ws_clients, conn>>
          /\ reply'.payload.port = port
          /\ reply'.payload.url = <<"http://localhost:", port>>
      ]_vars

\* a start asking for port 19999 has just been answered by a server that
\* runs on another port with a connection open
C15_Witness ==
    /\ reply.op = "start_web_server"
    /\ "message" \in DOMAIN reply.payload
    /\ reply.payload.message = "webServerAlreadyRunning"
    /\ site # None
    /\ port # 19999
    /\ reply.payload.port = port
    /\ ws_clients # {}

\* C16: every answer of start_web_server that is not an error has a port,
\* a url on localhost and websocket = true, whatever the state the server
\* was in.
C16_StartPayload ==
    [][reply'.op = "start_web_server" /\ "error" \notin DOMAIN reply'.payload
       => /\ {"port", "url", "websocket"} \subseteq DOMAIN reply'.payload
          /\ reply'.payload.url[1] = "http://localhost:"
          /\ reply'.payload.websocket = TRUE
      ]_vars

\* C17: when stop releases the listening socket, every connection has been
\* closed by it (the last one by the ws.close() that has just returned) and
\* the tracked set is empty; _cleanup also closes the upstream
\* HTTP client; afterwards the server is not running; a stop or a _cleanup
\* of a stopped server changes nothing.
C17_OrderedTeardown ==
    [][/\ listening /\ ~listening'
          => /\ \A c \in Conns : conn[c].pc = "open" => c \in stop.pending
             /\ ws_clients' = {}
       /\ stop.pc = "idle" /\ stop'.by = "cleanup" => client' # "open"
       /\ reply'.op = "stop_web_server"
          => /\ site' = None
             /\ site = None
                => UNCHANGED <<ws_clients, conn, port, auto_open, client>>
      ]_vars

\* the answers of failing tool calls: an unknown tool, a validation error,
\* an unknown search id, an upstream error, an upstream timeout
Failing(r) ==
    \/ r.op = "nonexistent_tool"
    \/ r.op = "search_icons"
          /\ r.status \in {"ValueError", "RuntimeError", "TimeoutError"}
    \/ r.op = "check_selection_status" /\ r.status = "error"

\* C18: every failing tool call is answered, and its payload is an object
\* with an "error" field holding a message and nothing that looks like a
\* success.
C18_FailuresAnswered ==
    [][Failing(reply')
       => /\ DOMAIN reply'.payload = {"error"}
          /\ reply'.payload.error
                \in {"error.methodNotFound", "search.invalidPage",
                     "search.invalidPageSize", "selection.noSearchFound",
                     "search.searchFailed", "error.timeout"}
      ]_vars

\* an upstream timeout has just been answered with its error payload
C18_Witness ==
    /\ reply.op = "search_icons"
    /\ reply.status = "TimeoutError"
    /\ reply.payload = [error |-> "error.timeout"]

\* C19: a search with page < 1 or pageSize outside 1..100 is answered with
\* a validation error by a step that reads and writes no cache namespace,
\* sends no upstream request, mints no id and does not start the web
\* server; no upstream request and no cached result ever carries such a
\* page or pageSize.
C19_InvalidSearchRejected ==
    /\ [][reply'.op = "search_icons" /\ reply'.status = "ValueError"
          => /\ UNCHANGED <<icon_cache, search_cache, selection_cache,
                            search, minted, site, port, auto_open, client>>
             /\ reply'.payload.error
                   \in {"search.invalidPage", "search.invalidPageSize"}
         ]_vars
    /\ [](\A k \in SearchCalls :
             search[k].pc = "fetch"
             => /\ search[k].args[2] >= 1
                /\ search[k].args[3] \in 1..100)
    /\ [](\A key \in DOMAIN icon_cache :
             /\ icon_cache[key].data.page >= 1
             /\ icon_cache[key].data.page_size \in 1..100)

\* a search with pageSize 101 has just been rejected on a server that has
\* done nothing yet
C19_Witness ==
    /\ reply.op = "search_icons"
    /\ reply.status = "ValueError"
    /\ reply.payload.error = "search.invalidPageSize"
    /\ icon_cache = <<>>
    /\ search_cache = <<>>
    /\ minted = {}
    /\ site = None
    /\ client = "none"
    /\ \A k \in SearchCalls : search[k].pc = "idle"

\* the answers of searches whose upstream request failed
UpstreamFailure(r) ==
    r.op = "search_icons" /\ r.status \in {"TimeoutError", "RuntimeError"}

\* C20 as stated: a search whose upstream request fails is answered with
\* one error after one attempt, the timeout told apart, and the call has
\* left the icon, search and selection namespaces unchanged, its cache
\* lookup included, and has minted no id.
C20_FailedSearchChangesNothing ==
    [][UpstreamFailure(reply')
       => /\ ~reply'.evicted
          /\ UNCHANGED <<icon_cache, search_cache, selection_cache, minted>>
      ]_vars

\* C20: a search whose upstream request fails is answered with one error
\* after one attempt (the call is over), the timeout told apart by its
\* message; the failure changes no namespace, mints no id and does not
\* start the web server; all the call has changed is that its cache lookup
\* deleted the expired entry of its own cache key, if there was one.
C20_FailedSearchOnlyEvicts ==
    /\ [][UpstreamFailure(reply')
          => /\ UNCHANGED <<icon_cache, search_cache, selection_cache, minted,
                            site, port, auto_open>>
             /\ \E k \in SearchCalls :
                   /\ search[k].pc = "fetch"
                   /\ search' = [search EXCEPT ![k] = IdleSearch]
             /\ reply'.payload
                   = [error |-> IF reply'.status = "TimeoutError"
                                THEN "error.timeout"
                                ELSE "search.searchFailed"]
         ]_vars
    /\ [][\A k \in SearchCalls :
             search[k].pc # "fetch" /\ search'[k].pc = "fetch"
             => LET key == search'[k].key IN
                /\ UNCHANGED <<search_cache, selection_cache, minted>>
                /\ key \notin DOMAIN icon_cache'
                /\ DOMAIN icon_cache' = DOMAIN icon_cache \ {key}
                /\ \A x \in DOMAIN icon_cache' : icon_cache'[x] = icon_cache[x]
                /\ key \in DOMAIN icon_cache
                      => icon_cache[key].age > expiry_seconds
                /\ search'[k].evicted <=> key \in DOMAIN icon_cache
         ]_vars

\* a search has just failed with a timeout after its cache lookup deleted
\* the expired result of an earlier search
C20_Witness ==
    /\ reply.op = "search_icons"
    /\ reply.status = "TimeoutError"
    /\ reply.evicted
    /\ minted # {}

\* C21: every successful search_icons call returns a search_id that is not
\* empty and a web_url made of that search_id and of the port on which the
\* web server's socket is bound when the call returns; the web server is
\* then running (listening).
C21_SearchWebUrl ==
    [][reply'.op = "search_icons" /\ reply'.status = "ok"
       => LET data == reply'.data IN
          /\ data.search_id # EmptyId
          /\ data.web_url[2] = data.search_id
          /\ site' # None
          /\ site'.bound
          /\ data.web_url[1] = <<"http://localhost:", site'.port>>
      ]_vars

\* the search ids whose stored record has one of the statuses
Stored(cache, statuses) ==
    {id \in DOMAIN cache : cache[id].status \in statuses}

\* C22: every step that writes COMPLETED or FAILED for a search id (the
\* record becomes terminal, or its terminal content changes) finds the
\* record stored for that id WAITING, never absent or already terminal.
C22_TerminalOnlyFromWaiting ==
    [][\A id \in Stored(selection_cache', {"completed", "failed"}) :
          (id \notin DOMAIN selection_cache
             \/ selection_cache[id].status # selection_cache'[id].status
             \/ selection_cache[id].selected_icons
                   # selection_cache'[id].selected_icons)
          => id \in Stored(selection_cache, {"waiting"})
      ]_vars

\* C23: a record that is COMPLETED or FAILED keeps its status and its
\* selected items in every step (a connection opening for its search id, a
\* further submission, a disconnect) until the step in which a poll
\* returns it and deletes it.
C23_TerminalIsFinal ==
    [][\A id \in Stored(selection_cache, {"completed", "failed"}) :
          IF id \in DOMAIN selection_cache'
          THEN /\ selection_cache'[id].status = selection_cache[id].status
               /\ selection_cache'[id].selected_icons
                     = selection_cache[id].selected_icons
          ELSE /\ reply'.op = "check_selection_status"
               /\ reply'.search_id = id
               /\ reply'.status = selection_cache[id].status
      ]_vars

\* C24: in every reachable state the status of every stored selection
\* record is WAITING, COMPLETED or FAILED; TIMEOUT is only the status of
\* the answer of a poll.
C24_TimeoutNotPersisted ==
    \A id \in DOMAIN selection_cache :
       selection_cache[id].status \in {"waiting", "completed", "failed"}

\* a poll has just answered timeout, and the record of its search id is
\* stored with a connected browser
C24_Witness ==
    /\ reply.op = "check_selection_status"
    /\ reply.status = "timeout"
    /\ reply.search_id \in DOMAIN selection_cache
    /\ selection_cache[reply.search_id].connected

\* C25: in every reachable state each stored selection record has the
\* search id it is stored under; COMPLETED comes with connected = true and
\* items that are not empty, those of the submission that wrote it; FAILED
\* with connected = false and no items; WAITING with no items; and FAILED
\* is written only by the step that ends the grace period of a closed
\* connection of that search id, never by a submission or a poll.
C25_RecordsWellFormed ==
    /\ [](\A id \in DOMAIN selection_cache :
             LET rec == selection_cache[id] IN
             /\ rec.search_id = id
             /\ rec.status = "completed"
                   => rec.connected /\ rec.selected_icons # <<>>
             /\ rec.status = "failed"
                   => ~rec.connected /\ rec.selected_icons = <<>>
             /\ rec.status = "waiting" => rec.selected_icons = <<>>)
    /\ [][reply'.op = "save" /\ reply'.status = 200
          => \E id \in DOMAIN selection_cache' :
                /\ selection_cache'[id].status = "completed"
                /\ Len(selection_cache'[id].selected_icons) = reply'.count
                /\ \A other \in DOMAIN selection_cache' \ {id} :
                      /\ other \in DOMAIN selection_cache
                      /\ selection_cache'[other] = selection_cache[other]
         ]_vars
    /\ [][\A id \in Stored(selection_cache', {"failed"}) :
             id \notin Stored(selection_cache, {"failed"})
             => /\ reply' = NoReply
                /\ \E c \in Conns :
                      /\ conn[c].pc = "grace"
                      /\ conn'[c].pc = "done"
                      /\ conn[c].search_id = id
         ]_vars

\* the grace period of a closed connection has run out on a WAITING
\* record, which is now FAILED, not connected and without items
C25_Witness ==
    \E id \in DOMAIN selection_cache :
       /\ selection_cache[id].status = "failed"
       /\ ~selection_cache[id].connected
       /\ selection_cache[id].selected_icons = <<>>
       /\ \E c \in Conns :
             /\ conn[c].pc = "done"
             /\ conn[c].search_id = id
             /\ conn[c].reread = "waiting"

\* C26: a clear in either mode and a get on the icon or the search
\* namespace (by a search, by the pagination route) leave the selection
\* namespace as it is, whatever the age of its records; the passing of time
\* removes no selection record and changes none but for its age.
C26_SelectionsOutliveClear ==
    /\ [][\/ reply'.op \in {"clear_cache", "cache_api", "search_icons",
                            "get_cache_stats"}
          \/ \E k \in SearchCalls : search'[k].pc # search[k].pc
          => selection_cache' = selection_cache
         ]_vars
    /\ [][reply'.op # "save"
          => /\ DOMAIN selection_cache' = DOMAIN selection_cache
             /\ \A id \in DOMAIN selection_cache :
                   selection_cache'[id]
                      = [selection_cache[id] EXCEPT
                           !.age = selection_cache'[id].age]
         ]_vars

\* a full clear has just emptied the icon and the search namespace, and the
\* selection record of a search it removed, not a fresh one, is still
\* stored
C26_Witness ==
    /\ reply.op = "clear_cache"
    /\ ~reply.expired_only
    /\ reply.search_cleared >= 1
    /\ search_cache = <<>>
    /\ \E id \in DOMAIN selection_cache :
          /\ selection_cache[id].age >= 1
          /\ selection_cache[id].status = "completed"

\* C27: a submission that is not accepted (no items, no search id, a body
\* that is not valid JSON or holds neither) is answered with a client
\* error and changes no namespace; COMPLETED is written only by an accepted
\* submission, with items and under a search id that are not empty.
C27_BadSubmissionRejected ==
    /\ [][reply'.op = "save" /\ reply'.status # 200
          => /\ reply'.status \in 400..499
             /\ UNCHANGED <<selection_cache, icon_cache, search_cache, minted>>
         ]_vars
    /\ [][\A id \in Stored(selection_cache', {"completed"}) :
             (id \notin DOMAIN selection_cache
                \/ selection_cache'[id] # selection_cache[id])
             => \/ reply' = NoReply
                   /\ selection_cache'[id]
                         = [selection_cache[id] EXCEPT !.age = 1]
                \/ /\ reply'.op = "save"
                   /\ reply'.status = 200
                   /\ selection_cache'[id].selected_icons # <<>>
                   /\ id # EmptyId
         ]_vars
    /\ [](EmptyId \notin DOMAIN selection_cache)

\* C28: serving the picking page for a search id and answering a ping on
\* an open connection change no selection record (none is created, and
\* each keeps its status, timestamp, connected flag and items), nor
\* anything else; the ping is answered with a pong.
C28_PageAndPingChangeNothing ==
    /\ [][reply'.op \in {"index", "pong"}
          => UNCHANGED <<selection_cache, icon_cache, search_cache, ws_clients,
                         poll, conn, minted, returned>>
         ]_vars
    /\ [][reply'.op = "pong"
          => \E c \in Conns : /\ conn[c].pc = "open"
                              /\ conn[c].search_id = reply'.search_id
         ]_vars

\* the page has just been served for a search that has no selection record
\* yet
C28_Witness ==
    /\ reply.op = "index"
    /\ minted # {}
    /\ selection_cache = <<>>

\* C29: a start_web_server call that is answered with a port has that port
\* bound; a start that binds takes the smallest port from the requested one
\* up to 99 above it that is not in use, and only if all 100 are in use a
\* port in 20000..30000.
C29_PortProbing ==
    [][reply'.op = "start_web_server" /\ "port" \in DOMAIN reply'.payload
       => LET p == reply'.payload.port
              from == reply'.start_port
              busy == reply'.busy
              probed == from .. (from + 99)
          IN  /\ site' # None /\ site'.bound /\ site'.port = p
              /\ reply'.payload.message = "webServerStarted"
                 => IF probed \subseteq busy
                    THEN p \in 20000..30000
                    ELSE /\ p \in probed \ busy
                         /\ \A q \in probed \ busy : p <= q
      ]_vars

\* C30: when a connection opens for a search id whose record is WAITING,
\* the record is replaced by a fresh WAITING one (new timestamp, connected)
\* without any error, and the polls in flight stay as they are; a poll
\* returns completed or failed only for a record that is stored with that
\* status, so not because of the reopen.
C30_ReopenRefreshesWaiting ==
    /\ [][\A c \in Conns :
             LET id == conn'[c].search_id IN
             (/\ conn[c].pc # "open"
              /\ conn'[c].pc = "open"
              /\ id \in Stored(selection_cache, {"waiting"}))
             => /\ selection_cache'[id]
                      = [status |-> "waiting", search_id |-> id, age |-> 0,
                         connected |-> TRUE, selected_icons |-> <<>>]
                /\ reply' = NoReply
                /\ poll' = poll
         ]_vars
    /\ [][reply'.op = "check_selection_status"
             /\ reply'.status \in {"completed", "failed"}
          => /\ reply'.search_id \in DOMAIN selection_cache
             /\ selection_cache[reply'.search_id].status = reply'.status
         ]_vars

\* a second connection has opened for a search id during the grace period
\* of the first: the record is WAITING, fresh and connected, and a poll on
\* that search id is still asleep
C30_Witness ==
    \E c \in Conns, d \in Conns, p \in Polls :
       LET id == conn[d].search_id IN
       /\ conn[c].pc = "grace"
       /\ conn[c].reopened
       /\ conn[d].pc = "open"
       /\ conn[c].search_id = id
       /\ id \in DOMAIN selection_cache
       /\ selection_cache[id].status = "waiting"
       /\ selection_cache[id].age = 0
       /\ selection_cache[id].connected
       /\ poll[p].pc = "sleep"
       /\ poll[p].search_id = id
       /\ poll[p].elapsed >= 1

\* C31: a step that writes FAILED for a search id finds no connection open
\* for that search id: with two connections open for it, closing one while
\* the other stays open never makes the record FAILED.
C31_NoFailedWhileConnected ==
    [][\A id \in Stored(selection_cache', {"failed"}) :
          id \notin Stored(selection_cache, {"failed"})
          => \A c \in Conns :
                ~(conn[c].pc = "open" /\ conn[c].search_id = id)
      ]_vars

\* the search id is that of a stored search record that has not expired
LiveRecord(id) ==
    id \in DOMAIN search_cache /\ search_cache[id].age <= expiry_seconds

\* C32: every icon-namespace result that has not expired carries the id of a
\* search record that has not expired, and every search id a search call
\* returns, fetched or from the cache, has such a record when it is returned.
C32_ReturnedIdHasRecord ==
    /\ \A key \in DOMAIN icon_cache :
          icon_cache[key].age <= expiry_seconds
          => LiveRecord(icon_cache[key].data.search_id)
    /\ reply.op = "search_icons" /\ reply.status = "ok"
          => LiveRecord(reply.data.search_id)

\* a search is answered from the cache by an entry whose age is the expiry
\* exactly, after other entries were evicted or cleared
C32_Witness ==
    /\ reply.op = "search_icons" /\ reply.status = "ok" /\ reply.from_cache
    /\ \E key \in DOMAIN icon_cache :
          /\ icon_cache[key].data.search_id = reply.data.search_id
          /\ icon_cache[key].age = expiry_seconds
    /\ Cardinality(minted) > Cardinality(DOMAIN search_cache)

\* a namespace cut down to one of its entries
OnlyEntry(cache, key) == [k \in {key} |-> cache[k]]

\* get, get_stats and clear(expired_only=True) tell the same of the entry
\* under the key: gone for all three when it is older than the expiry, there
\* for all three when it is not (present is what get returns of it)
SameExpiry(cache, key, present) ==
    LET older == cache[key].age > expiry_seconds
        stats == NamespaceStats(OnlyEntry(cache, key))
    IN  /\ ~present <=> older
        /\ stats.expired = 1 <=> older
        /\ stats.valid = 0 <=> older
        /\ key \notin DOMAIN Cleared(cache, TRUE) <=> older
        /\ ClearedCount(OnlyEntry(cache, key), TRUE) = 1 <=> older

\* C33: get, cacheStats and clearCache(expiredOnly=true) agree on every
\* entry at every age: absent for get, counted as expired and removed by
\* the clear exactly when its age is greater than the expiry; at an age
\* equal to the expiry it is returned, counted valid and kept. The counts
\* of the namespaces agree as well.
C33_ExpiryAgreement ==
    /\ \A key \in DOMAIN icon_cache :
          SameExpiry(icon_cache, key, get_icon(key) # None)
    /\ \A key \in DOMAIN search_cache :
          SameExpiry(search_cache, key, get_search(key) # None)
    /\ get_stats.icon_cache.valid
          = Cardinality({key \in DOMAIN icon_cache : get_icon(key) # None})
    /\ get_stats.search_cache.valid
          = Cardinality({key \in DOMAIN search_cache : get_search(key) # None})
    /\ get_stats.icon_cache.expired = ClearedCount(icon_cache, TRUE)
    /\ get_stats.search_cache.expired = ClearedCount(search_cache, TRUE)

\* get_cache_stats has answered with an entry at the age of the expiry
\* exactly, counted valid, beside an older one, counted as expired
C33_Witness ==
    /\ reply.op = "get_cache_stats"
    /\ reply.stats.icon_cache.valid = 1
    /\ reply.stats.icon_cache.expired = 1
    /\ \E key \in DOMAIN icon_cache : icon_cache[key].age = expiry_seconds
    /\ \E key \in DOMAIN icon_cache : icon_cache[key].age > expiry_seconds

\* the selection record stored for the search id is COMPLETED or FAILED
Terminal(id) ==
    id \in Stored(selection_cache, {"completed", "failed"})

\* what a call returns of a terminal record
TerminalReply(id) ==
    IF selection_cache[id].status = "completed"
    THEN PollReply(id, "completed", TRUE, selection_cache[id].selected_icons)
    ELSE PollReply(id, "failed", FALSE, <<>>)

\* C34: a new call on a search id whose search record has expired or was
\* cleared fails with not-found also when a COMPLETED or FAILED record is
\* stored for the id, and leaves that record in place; a call that was
\* waiting when the search record went is served as ever: at its next read
\* it returns the terminal record.
C34_GoneSearchRefusesNewCallsOnly ==
    [][/\ ReturnedAtOnce /\ get_search(reply'.search_id) = None
             => /\ reply' = PollReply(reply'.search_id, "error", FALSE, <<>>)
                /\ selection_cache' = selection_cache
       /\ \A p \in Polls :
             Slept(p) => get_search(poll'[p].search_id) # None
       /\ \A p \in Polls :
             Woke(p) /\ Reads(p) /\ Terminal(poll[p].search_id)
             => reply' = TerminalReply(poll[p].search_id)
      ]_vars

\* a call in flight has returned the terminal record of a search whose
\* record is gone
C34_Witness ==
    /\ reply.op = "check_selection_status"
    /\ reply.status \in {"completed", "failed"}
    /\ get_search(reply.search_id) = None

\* a new call is refused for a search that was cleared, with the FAILED
\* record of the search left in store
C34_Refused ==
    /\ reply.op = "check_selection_status"
    /\ reply.status = "error"
    /\ get_search(reply.search_id) = None
    /\ reply.search_id \in Stored(selection_cache, {"failed"})

\* the step is one of a check_selection_status call
PollStep ==
    \/ reply'.op = "check_selection_status"
    \/ \E p \in Polls : Slept(p) \/ Woke(p)

\* the step is the return of completed or failed for the search id
TerminalReturn(id) ==
    /\ reply'.op = "check_selection_status"
    /\ reply'.status \in {"completed", "failed"}
    /\ reply'.search_id = id

\* C35: a step of check_selection_status stores no selection record and
\* replaces none: it leaves the namespace as it was, or it returns completed
\* or failed and has deleted the record of its own search id and nothing
\* else; and a record that is gone after a step of any operation is the one
\* that such a return has consumed.
C35_PollOnlyDeletesOwnRecord ==
    [][/\ PollStep
             => \/ selection_cache' = selection_cache
                \/ \E id \in DOMAIN selection_cache :
                      /\ TerminalReturn(id)
                      /\ DOMAIN selection_cache' = DOMAIN selection_cache \ {id}
                      /\ \A other \in DOMAIN selection_cache' :
                            selection_cache'[other] = selection_cache[other]
       /\ \A id \in DOMAIN selection_cache \ DOMAIN selection_cache' :
             TerminalReturn(id)
      ]_vars

\* a call has consumed the record of its search id beside the record of
\* another search, which is still stored
C35_Witness ==
    /\ reply.op = "check_selection_status"
    /\ reply.status \in {"completed", "failed"}
    /\ reply.search_id \notin DOMAIN selection_cache
    /\ DOMAIN selection_cache # {}

====
